---------------------------- MODULE Spec2Model ----------------------------
(***************************************************************************)
(* BandClassLP (src/src/bandclasslp.py): assignment of students to band    *)
(* instruments by a 0/1 linear program, and the reshaping of the solved    *)
(* matrix into the long form with a preference rank.                       *)
(*                                                                         *)
(* The solver (pulp/CBC) is a black box: on a feasible problem it returns  *)
(* status 1 and some optimal 0/1 matrix; on an infeasible problem it       *)
(* returns status -1 and leaves unspecified values in the variables, which *)
(* is modelled as a free choice of a 0/1 matrix.                           *)
(*                                                                         *)
(* Not modelled: empty dictionaries for the two inputs (the behaviour of   *)
(* the solver on a problem without variables is not in the source), the    *)
(* charts of display_band, the logging calls.                              *)
(***************************************************************************)
EXTENDS Integers, Sequences, FiniteSets

(***************************************************************************)
(* Bounds of the model.                                                    *)
(***************************************************************************)
NumStudents == 2
MaxTarget == 2

(***************************************************************************)
(* Names.  instruments and students are the key lists of the two input     *)
(* dictionaries, in dictionary order.  UnknownInstrument is a name that is *)
(* no key of instrument_idealcount.                                        *)
(***************************************************************************)
StudentNames == <<"Alice", "Bob", "Carol", "Dave">>
instruments == <<"trumpet", "drums">>
students == SubSeq(StudentNames, 1, NumStudents)
UnknownInstrument == "flute"

Range(seq) == {seq[k] : k \in 1..Len(seq)}
InstrumentSet == Range(instruments)
StudentSet == Range(students)
Names == InstrumentSet \cup {UnknownInstrument}
Modes == {"students", "balanced", "instrumentation"}
Calls == {"A", "B"}

\* Preference lists a caller may pass: every duplicate-free non-empty list of
\* instruments, and one list of each invalid kind (empty, naming an unknown
\* instrument, with a duplicate).
ListsOver(names) == UNION {[1..n -> names] : n \in 0..Len(instruments)}
HasDuplicates(list) == \E j, k \in 1..Len(list) : j # k /\ list[j] = list[k]
ValidLists == {list \in ListsOver(InstrumentSet) : list # <<>> /\ ~HasDuplicates(list)}
InvalidLists ==
    {<<>>, <<UnknownInstrument>>} \cup {<<i, i>> : i \in InstrumentSet}
PreferenceLists == ValidLists \cup InvalidLists
\* (Init gives an invalid list to the first student at most.)

VARIABLES
    instrument_idealcount,  \* self.instrument_idealcount (line 21)
    student_preferences,    \* self.student_preferences (line 22)
    self_preference,        \* self.preference (line 165): "unset" until stored
    self_band,              \* self.band (line 166): <<>> until <<matrix>> is stored
    pc,                     \* per call: position in get_optimal_band
    preference,             \* per call: the argument `preference` (line 55)
    status,                 \* per call: the local `status` (line 152; 0: not solved)
    assignment,             \* per call: values of the local `assignment` (line 78)
    ret,                    \* per call: <<>> or <<returned DataFrame>> (line 167)
    long                    \* result of the latest wrangle_band_assignments_long

vars == <<instrument_idealcount, student_preferences, self_preference, self_band,
          pc, preference, status, assignment, ret, long>>

(***************************************************************************)
(* Python list helpers.                                                    *)
(***************************************************************************)
\* x in list
In(x, list) == \E k \in 1..Len(list) : list[k] = x

\* list.index(x): the 0-based position of the first occurrence (ValueError
\* when absent: callers guard with In).
index(list, x) ==
    CHOOSE k \in 0..(Len(list) - 1) :
        /\ list[k + 1] = x
        /\ \A j \in 0..(k - 1) : list[j + 1] # x

\* pulp.lpSum over a list of terms
RECURSIVE lpSum(_)
lpSum(terms) == IF terms = <<>> THEN 0 ELSE Head(terms) + lpSum(Tail(terms))

\* numpy floor(0.75 * count) and ceil(1.5 * count) for an integer count >= 0
\* (0.75 = 3/4 and 1.5 = 3/2 are exact in binary floating point)
SectionFloor(count) == (3 * count) \div 4
SectionCeiling(count) == (3 * count + 1) \div 2

(***************************************************************************)
(* Input validity as the specification defines it (the constructor does    *)
(* not check it).                                                          *)
(***************************************************************************)
ValidList(list) ==
    /\ list # <<>>
    /\ ~HasDuplicates(list)
    /\ \A k \in 1..Len(list) : list[k] \in InstrumentSet
ValidInput == \A s \in StudentSet : ValidList(student_preferences[s])

(***************************************************************************)
(* get_optimal_band: the linear program.                                   *)
(***************************************************************************)
\* weights = {...}; composition_weight, preference_weight = weights[preference]
weights ==
    [students |-> <<1, 5>>, balanced |-> <<3, 3>>, instrumentation |-> <<5, 1>>]

\* pulp.LpVariable.dicts(..., lowBound=0, upBound=1, cat=LpInteger): the
\* possible values of the variable matrix
Matrices == [StudentSet -> [InstrumentSet -> {0, 1}]]

\* sum of a student's variables over a list of instruments
RowSum(a, s, list) == lpSum([k \in 1..Len(list) |-> a[s][list[k]]])
\* sum of an instrument's variables over all students
ColumnSum(a, i) == lpSum([n \in 1..Len(students) |-> a[students[n]][i]])

\* mutant: the constraint written with >= instead of ==
SingleInstrumentAtLeastOne(a) ==
    \A s \in StudentSet : lpSum([k \in 1..Len(instruments) |-> a[s][instruments[k]]]) >= 1

\* Constraint 1: 1 instrument per person.
SingleInstrument(a) == \A s \in StudentSet : RowSum(a, s, instruments) = 1

\* mutants: the bounds skipped in mode balanced too; the test inverted
BoundsApplyInstrumentationOnly(mode) == mode = "instrumentation"
BoundsApplyInverted(mode) == mode = "students"

\* `if preference != "students"` guarding constraints 2 and 4
BoundsApply(mode) == mode # "students"

\* Constraint 2: lower limit on instrumentation.
LowerLimit(a) ==
    \A i \in InstrumentSet : ColumnSum(a, i) >= SectionFloor(instrument_idealcount[i])

\* mutant: `in` for `not in`
selected_instruments(s) ==
    SelectSeq(instruments, LAMBDA i : In(i, student_preferences[s]))

\* Constraint 3: no non-selected instruments for each person.
non_selected_instruments(s) ==
    SelectSeq(instruments, LAMBDA i : ~In(i, student_preferences[s]))
SelectionRestriction(a) ==
    \A s \in StudentSet : RowSum(a, s, non_selected_instruments(s)) = 0

\* Constraint 4: upper limit on instrumentation.
UpperLimit(a) ==
    \A i \in InstrumentSet : ColumnSum(a, i) <= SectionCeiling(instrument_idealcount[i])

Constraints(a, mode) ==
    /\ SingleInstrument(a)
    /\ BoundsApply(mode) => LowerLimit(a)
    /\ SelectionRestriction(a)
    /\ BoundsApply(mode) => UpperLimit(a)

\* mutant: the absolute deviation |count - assigned| * composition_weight
CompositionTermAbsolute(a, mode) ==
    lpSum([k \in 1..Len(instruments) |->
        LET difference == instrument_idealcount[instruments[k]] - ColumnSum(a, instruments[k])
        IN  (IF difference < 0 THEN -difference ELSE difference) * weights[mode][1]])

\* Ideal band composition: obj += count - lpSum(...) * composition_weight.
\* The product binds tighter than the difference, as in the source.
CompositionTerm(a, mode) ==
    lpSum([k \in 1..Len(instruments) |->
        instrument_idealcount[instruments[k]]
            - ColumnSum(a, instruments[k]) * weights[mode][1]])

\* mutant: the rank factor preferences.index(i) left out
PreferenceTermWithoutRank(a, mode) ==
    lpSum([n \in 1..Len(students) |->
        LET preferences == student_preferences[students[n]]
        IN  lpSum([k \in 1..Len(preferences) |-> a[students[n]][preferences[k]]])
            * weights[mode][2]])

\* Student preferred instruments:
\* obj += lpSum([assignment[s][i] * preferences.index(i) for i in preferences])
\*        * preference_weight
PreferenceTerm(a, mode) ==
    lpSum([n \in 1..Len(students) |->
        LET preferences == student_preferences[students[n]]
        IN  lpSum([k \in 1..Len(preferences) |->
                a[students[n]][preferences[k]] * index(preferences, preferences[k])])
            * weights[mode][2]])

Objective(a, mode) == CompositionTerm(a, mode) + PreferenceTerm(a, mode)

\* assignment[s][i] for i in preferences raises KeyError when a list names
\* an instrument that is no key of instrument_idealcount
RaisesKeyError ==
    \E s \in StudentSet : \E k \in 1..Len(student_preferences[s]) :
        student_preferences[s][k] \notin InstrumentSet

FeasibleAssignments(mode) == {a \in Matrices : Constraints(a, mode)}

\* what an exact solver may return on a feasible problem
OptimalAssignments(mode) ==
    LET feasible == FeasibleAssignments(mode)
        values == {Objective(a, mode) : a \in feasible}
        best == CHOOSE v \in values : \A w \in values : v <= w
    IN  {a \in feasible : Objective(a, mode) = best}

\* status = problem.solve(): 1 (optimal) or -1 (infeasible)
SolveStatus(mode) == IF FeasibleAssignments(mode) # {} THEN 1 ELSE -1

\* the values found in the variables after problem.solve()
SolvedValues(mode) ==
    IF FeasibleAssignments(mode) # {} THEN OptimalAssignments(mode) ELSE Matrices

(***************************************************************************)
(* wrangle_band_assignments_long.                                          *)
(***************************************************************************)
\* mutant: the 0-based index recorded as the rank
RowLambdaZeroBased(s, i, flag) ==
    IF flag # 0
    THEN IF In(i, student_preferences[s])
         THEN [raised |-> FALSE, preference |-> index(student_preferences[s], i)]
         ELSE [raised |-> TRUE, preference |-> 0]
    ELSE [raised |-> FALSE, preference |-> 0]

\* mutant: a lookup that defaults to rank 0 when the instrument is not listed
RowLambdaDefaulting(s, i, flag) ==
    IF flag # 0 /\ In(i, student_preferences[s])
    THEN [raised |-> FALSE, preference |-> index(student_preferences[s], i) + 1]
    ELSE [raised |-> FALSE, preference |-> 0]

\* the lambda of df.apply on one melted row: the rank, or ValueError raised by
\* list.index when the row is flagged and the instrument is not in the list
RowLambda(s, i, flag) ==
    IF flag # 0
    THEN IF In(i, student_preferences[s])
         THEN [raised |-> FALSE, preference |-> index(student_preferences[s], i) + 1]
         ELSE [raised |-> TRUE, preference |-> 0]
    ELSE [raised |-> FALSE, preference |-> 0]

WrangleRaises(band_assignments) ==
    \E s \in StudentSet, i \in InstrumentSet :
        RowLambda(s, i, band_assignments[s][i]).raised

WrangleRows(band_assignments) ==
    {[student |-> s, instrument |-> i, assignment |-> band_assignments[s][i],
      preference |-> RowLambda(s, i, band_assignments[s][i]).preference] :
        s \in StudentSet, i \in InstrumentSet}

NoTable == [kind |-> "none", rows |-> {}]

(***************************************************************************)
(* State machine.                                                          *)
(***************************************************************************)
Init ==
    /\ instrument_idealcount \in [InstrumentSet -> 0..MaxTarget]
    /\ student_preferences \in
           {p \in [StudentSet -> PreferenceLists] :
               \A s \in StudentSet \ {students[1]} : p[s] \in ValidLists}
    /\ self_preference = "unset"
    /\ self_band = <<>>
    /\ pc = [c \in Calls |-> "idle"]
    /\ preference = [c \in Calls |-> "unset"]
    /\ status = [c \in Calls |-> 0]
    /\ assignment = [c \in Calls |-> <<>>]
    /\ ret = [c \in Calls |-> <<>>]
    /\ long = NoTable

\* the call c of get_optimal_band(mode), run to completion
GetOptimalBand(c, mode) ==
    /\ pc[c] = "idle"
    /\ preference' = [preference EXCEPT ![c] = mode]
    /\ long' = NoTable
    /\ IF RaisesKeyError
       THEN /\ pc' = [pc EXCEPT ![c] = "KeyError"]
            /\ status' = [status EXCEPT ![c] = 0]
            /\ assignment' = [assignment EXCEPT ![c] = <<>>]
            /\ ret' = [ret EXCEPT ![c] = <<>>]
            /\ UNCHANGED <<self_preference, self_band>>
       ELSE \E values \in SolvedValues(mode) :
            /\ pc' = [pc EXCEPT ![c] = "returned"]
            /\ status' = [status EXCEPT ![c] = SolveStatus(mode)]
            /\ assignment' = [assignment EXCEPT ![c] = <<values>>]
            /\ self_preference' = mode
            /\ self_band' = <<values>>
            /\ ret' = [ret EXCEPT ![c] = <<values>>]
    /\ UNCHANGED <<instrument_idealcount, student_preferences>>

\* wrangle_band_assignments_long(self.band), as display_band calls it
WrangleBandAssignmentsLong ==
    /\ self_band # <<>>
    /\ long' = IF WrangleRaises(self_band[1])
               THEN [kind |-> "ValueError", rows |-> {}]
               ELSE [kind |-> "table", rows |-> WrangleRows(self_band[1])]
    /\ UNCHANGED <<instrument_idealcount, student_preferences, self_preference,
                   self_band, pc, preference, status, assignment, ret>>

Next ==
    \/ \E mode \in Modes : GetOptimalBand("A", mode)
    \/ WrangleBandAssignmentsLong

Spec == Init /\ [][Next]_vars

(***************************************************************************)
(* Calls of get_optimal_band on one object from several threads: the call  *)
(* is split where it touches the fields of the object (lines 165-167).     *)
(***************************************************************************)
\* lines 73-164: build the problem and solve it, on locals only
Solve(c, mode) ==
    /\ pc[c] = "idle"
    /\ preference' = [preference EXCEPT ![c] = mode]
    /\ IF RaisesKeyError
       THEN /\ pc' = [pc EXCEPT ![c] = "KeyError"]
            /\ UNCHANGED <<status, assignment>>
       ELSE \E values \in SolvedValues(mode) :
            /\ pc' = [pc EXCEPT ![c] = "line165"]
            /\ status' = [status EXCEPT ![c] = SolveStatus(mode)]
            /\ assignment' = [assignment EXCEPT ![c] = <<values>>]
    /\ UNCHANGED <<instrument_idealcount, student_preferences, self_preference,
                   self_band, ret, long>>

\* line 165: self.preference = preference
StorePreference(c) ==
    /\ pc[c] = "line165"
    /\ self_preference' = preference[c]
    /\ pc' = [pc EXCEPT ![c] = "line166"]
    /\ UNCHANGED <<instrument_idealcount, student_preferences, self_band,
                   preference, status, assignment, ret, long>>

\* line 166: self.band = pd.DataFrame(assignment).applymap(pulp.value).transpose()
StoreBand(c) ==
    /\ pc[c] = "line166"
    /\ self_band' = assignment[c]
    /\ pc' = [pc EXCEPT ![c] = "line167"]
    /\ UNCHANGED <<instrument_idealcount, student_preferences, self_preference,
                   preference, status, assignment, ret, long>>

\* line 167: return self.band
ReturnBand(c) ==
    /\ pc[c] = "line167"
    /\ ret' = [ret EXCEPT ![c] = self_band]
    /\ pc' = [pc EXCEPT ![c] = "returned"]
    /\ UNCHANGED <<instrument_idealcount, student_preferences, self_preference,
                   self_band, preference, status, assignment, long>>

\* the threads solve a valid input that is feasible in every mode
InitThreads ==
    /\ Init
    /\ ValidInput
    /\ \A mode \in Modes : FeasibleAssignments(mode) # {}

NextThreads ==
    \/ \E c \in Calls, mode \in Modes : Solve(c, mode)
    \/ \E c \in Calls : StorePreference(c)
    \/ \E c \in Calls : StoreBand(c)
    \/ \E c \in Calls : ReturnBand(c)

SpecThreads == InitThreads /\ [][NextThreads]_vars

(***************************************************************************)
(* Properties.                                                             *)
(***************************************************************************)
\* the call c returned a DataFrame and the solver reported an optimum
ReturnedFeasible(c) == pc[c] = "returned" /\ status[c] = 1
\* the DataFrame returned by the call c
Returned(c) == ret[c][1]
\* number of students whose cell for instrument i is 1
AssignedCount(a, i) == Cardinality({s \in StudentSet : a[s][i] = 1})
\* count >= floor(0.75 * target) and count <= ceil(1.5 * target), in integers
AtLeastFloor(count, target) == 4 * count >= 3 * target - 3
AtMostCeiling(count, target) == 2 * count <= 3 * target + 1
WithinSectionBounds(a) ==
    \A i \in InstrumentSet :
        /\ AtLeastFloor(AssignedCount(a, i), instrument_idealcount[i])
        /\ AtMostCeiling(AssignedCount(a, i), instrument_idealcount[i])
\* k is the 1-based position of the first occurrence of i in list
IsRankOf(k, i, list) ==
    /\ k \in 1..Len(list)
    /\ list[k] = i
    /\ \A j \in 1..(k - 1) : list[j] # i
\* every student on the first instrument of their list
FirstChoice ==
    [s \in StudentSet |->
        [i \in InstrumentSet |-> IF student_preferences[s][1] = i THEN 1 ELSE 0]]
\* total preference-rank cost and distance to the targets of an assignment
\* with one instrument per student
AssignedInstrument(a, s) == CHOOSE i \in InstrumentSet : a[s][i] = 1
RankOf(a, s) ==
    CHOOSE k \in 0..Len(student_preferences[s]) :
        IsRankOf(k + 1, AssignedInstrument(a, s), student_preferences[s])
RankCost(a) == lpSum([n \in 1..Len(students) |-> RankOf(a, students[n])])
Abs(x) == IF x < 0 THEN -x ELSE x
Deviation(a) ==
    lpSum([k \in 1..Len(instruments) |->
        Abs(AssignedCount(a, instruments[k]) - instrument_idealcount[instruments[k]])])

\* C1: on a valid input, in every mode, a feasible solve returns a matrix in
\* which every student has exactly one instrument at 1 and all others at 0.
C1_OneInstrumentPerStudent ==
    \A c \in Calls :
        (ValidInput /\ ReturnedFeasible(c)) =>
            \A s \in StudentSet :
                \E i \in InstrumentSet :
                    /\ Returned(c)[s][i] = 1
                    /\ \A j \in InstrumentSet \ {i} : Returned(c)[s][j] = 0

\* C1 witness: a feasible balanced solve of a valid input in which a student
\* who lists both instruments got one of them and Alice and Bob differ.
C1_Witness ==
    /\ ValidInput
    /\ ReturnedFeasible("A")
    /\ preference["A"] = "balanced"
    /\ Len(student_preferences["Alice"]) = 2
    /\ Returned("A")["Alice"]["trumpet"] = 1
    /\ Returned("A")["Bob"]["drums"] = 1

\* C2: on a valid input, in every mode, a feasible solve assigns no student
\* an instrument that is not in the student's preference list.
C2_OnlyListedInstruments ==
    \A c \in Calls :
        (ValidInput /\ ReturnedFeasible(c)) =>
            \A s \in StudentSet, i \in InstrumentSet :
                Returned(c)[s][i] = 1 => In(i, student_preferences[s])

\* C2 witness: a feasible solve where a student lists one instrument only,
\* the section bounds would be met with that student on the other one too.
C2_Witness ==
    /\ ValidInput
    /\ ReturnedFeasible("A")
    /\ preference["A"] = "students"
    /\ student_preferences["Alice"] = <<"drums">>
    /\ Returned("A")["Alice"]["drums"] = 1

\* C3: on a valid input, in mode balanced or instrumentation, a feasible
\* solve puts on every instrument at least floor(0.75 target) and at most
\* ceil(1.5 target) students; in mode students no bound is imposed, so the
\* solve of a valid input is always feasible.
C3_SectionBounds ==
    \A c \in Calls :
        /\ (ValidInput /\ ReturnedFeasible(c) /\ preference[c] # "students") =>
               WithinSectionBounds(Returned(c))
        /\ (ValidInput /\ pc[c] = "returned" /\ preference[c] = "students") =>
               status[c] = 1

\* C3 witness: a feasible balanced solve in which the bounds keep a student
\* off the first instrument of their list.
C3_Witness ==
    /\ ValidInput
    /\ ReturnedFeasible("A")
    /\ preference["A"] = "balanced"
    /\ Returned("A") # FirstChoice
    /\ ~WithinSectionBounds(FirstChoice)

\* C4: the long table has one row per cell of the wide assignment, carrying
\* the cell's flag; its rank is the 1-based position of the instrument in the
\* student's list when the flag is 1 (so rank - 1 is the 0-based index), and
\* 0 when the flag is 0.
C4_RankIsOneBasedIndex ==
    long.kind = "table" =>
        \A s \in StudentSet, i \in InstrumentSet :
            \E row \in long.rows :
                /\ row.student = s /\ row.instrument = i
                /\ \A other \in long.rows :
                       (other.student = s /\ other.instrument = i) => other = row
                /\ row.assignment = self_band[1][s][i]
                /\ row.assignment = 1 =>
                       /\ IsRankOf(row.preference, i, student_preferences[s])
                       /\ LET zero_based == row.preference - 1
                          IN  /\ zero_based \in 0..(Len(student_preferences[s]) - 1)
                              /\ student_preferences[s][zero_based + 1] = i
                /\ row.assignment = 0 => row.preference = 0

\* C4 witness: a long table with a student assigned the second instrument of
\* their list.
C4_Witness ==
    /\ long.kind = "table"
    /\ \E row \in long.rows : row.assignment = 1 /\ row.preference = 2

\* C5: an invalid input (unknown instrument, duplicates or an empty list) is
\* rejected with an InvalidInput error before the problem is built and the
\* solver invoked, and no assignment is returned.
C5_InvalidInputRejected ==
    \A c \in Calls :
        (~ValidInput /\ pc[c] # "idle") =>
            /\ pc[c] = "InvalidInput"
            /\ status[c] = 0
            /\ assignment[c] = <<>>
            /\ ret[c] = <<>>

\* C6: when no assignment satisfies the constraints of the mode, the solve
\* yields no assignment: nothing is returned and nothing is kept in the
\* object.
C6_InfeasibleYieldsNoAssignment ==
    \A c \in Calls :
        (ValidInput /\ pc[c] # "idle" /\ FeasibleAssignments(preference[c]) = {}) =>
            /\ ret[c] = <<>>
            /\ self_band = <<>>

\* C7: given a wide assignment with a non-zero flag on an instrument that is
\* not in the student's list, wrangle_band_assignments_long raises and
\* produces no table (no rank 0, nor any other rank, for that cell).
C7_UnlistedAssignmentAborts ==
    (/\ long.kind # "none"
     /\ \E s \in StudentSet, i \in InstrumentSet :
            self_band[1][s][i] # 0 /\ ~In(i, student_preferences[s]))
        => (long.kind = "ValueError" /\ long.rows = {})

\* C7 witness: the reshaping of a matrix that flags drums for Alice, who
\* lists trumpet only, has raised.
C7_Witness ==
    /\ long.kind = "ValueError"
    /\ student_preferences["Alice"] = <<"trumpet">>
    /\ self_band[1]["Alice"]["drums"] = 1

\* C8: on a valid input feasible in both modes, an optimal assignment of
\* mode students costs no more preference rank than any optimal assignment
\* of mode instrumentation, and an optimal assignment of mode instrumentation
\* is at least as close to the targets as any optimal one of mode students.
C8_StudentsVersusInstrumentation ==
    \A c \in Calls :
        (ValidInput /\ ReturnedFeasible(c)) =>
            /\ preference[c] = "students" =>
                   \A b \in OptimalAssignments("instrumentation") :
                       /\ RankCost(Returned(c)) <= RankCost(b)
                       /\ Deviation(b) <= Deviation(Returned(c))
            /\ preference[c] = "instrumentation" =>
                   \A a \in OptimalAssignments("students") :
                       /\ RankCost(a) <= RankCost(Returned(c))
                       /\ Deviation(Returned(c)) <= Deviation(a)

\* C8 witness: an instrumentation solve that costs more preference rank and
\* is strictly closer to the targets than an optimum of mode students.
C8_Witness ==
    /\ ValidInput
    /\ ReturnedFeasible("A")
    /\ preference["A"] = "instrumentation"
    /\ \E a \in OptimalAssignments("students") :
           /\ RankCost(a) < RankCost(Returned("A"))
           /\ Deviation(Returned("A")) < Deviation(a)

\* C9: on a valid input, when every student on the first instrument of their
\* list meets the section bounds that apply in the mode, the solve is
\* feasible and returns exactly that assignment, and every student has rank 1
\* in the long form.
C9_FirstChoicesWhenWithinBounds ==
    \A c \in Calls :
        (/\ ValidInput
         /\ pc[c] = "returned"
         /\ preference[c] # "students" => WithinSectionBounds(FirstChoice))
            => /\ status[c] = 1
               /\ Returned(c) = FirstChoice
               /\ long.kind # "ValueError"
               /\ long.kind = "table" =>
                      \A s \in StudentSet :
                          \E row \in long.rows :
                              /\ row.student = s
                              /\ row.assignment = 1
                              /\ row.preference = 1

\* C9 witness: a balanced solve, reshaped, where both students list both
\* instruments and their first choices meet the bounds.
C9_Witness ==
    /\ ValidInput
    /\ pc["A"] = "returned"
    /\ preference["A"] = "balanced"
    /\ WithinSectionBounds(FirstChoice)
    /\ \A s \in StudentSet : Len(student_preferences[s]) = 2
    /\ long.kind = "table"

\* C10: no two solves share mutable state: once a call has returned, the
\* assignment and the mode to be observed for it (the DataFrame it returned,
\* self.band and self.preference) are the ones that call computed.
C10_SolvesShareNoState ==
    \A c \in Calls :
        pc[c] = "returned" =>
            /\ ret[c] = assignment[c]
            /\ self_band = assignment[c]
            /\ self_preference = preference[c]

\* the objective terms as the specification states them
\* (target count - assigned count) x composition weight, over the instruments
StatedCompositionTerm(a, mode) ==
    lpSum([k \in 1..Len(instruments) |->
        (instrument_idealcount[instruments[k]] - AssignedCount(a, instruments[k]))
            * weights[mode][1]])
\* 0-based rank of the k-th entry of a list: the first position of its name
ZeroBasedRank(list, k) == (CHOOSE j \in 1..Len(list) : IsRankOf(j, list[k], list)) - 1
\* variable x 0-based rank x preference weight, over the students and the
\* instruments of their lists
StatedPreferenceTerm(a, mode) ==
    lpSum([n \in 1..Len(students) |->
        LET list == student_preferences[students[n]]
        IN  lpSum([k \in 1..Len(list) |->
                a[students[n]][list[k]] * ZeroBasedRank(list, k) * weights[mode][2]])])

\* C11: for every input, mode and 0/1 matrix, the composition term of the
\* objective that get_optimal_band builds is the sum over the instruments of
\* (target - assigned) x composition weight, and the preference term is the
\* sum of variable x 0-based rank x preference weight.
C11_ObjectiveTermsAsStated ==
    \A c \in Calls :
        pc[c] = "returned" =>
            \A a \in Matrices :
                /\ CompositionTerm(a, preference[c]) = StatedCompositionTerm(a, preference[c])
                /\ PreferenceTerm(a, preference[c]) = StatedPreferenceTerm(a, preference[c])

\* the preference half of C11 alone
C11_PreferenceTermAsStated ==
    \A c \in Calls :
        pc[c] = "returned" =>
            \A a \in Matrices :
                PreferenceTerm(a, preference[c]) = StatedPreferenceTerm(a, preference[c])

\* every student has exactly one cell at 1
OneInstrumentEach(a) ==
    \A s \in StudentSet : Cardinality({i \in InstrumentSet : a[s][i] = 1}) = 1
\* sum of the target counts
TotalTarget == lpSum([k \in 1..Len(instruments) |-> instrument_idealcount[instruments[k]]])
\* the feasible assignments of a mode with the least total preference-rank cost
LeastRankCost(mode) ==
    {a \in FeasibleAssignments(mode) :
        \A b \in FeasibleAssignments(mode) : RankCost(a) <= RankCost(b)}

\* C12: for a fixed input the composition term takes one value on all the
\* assignments with one instrument per student (the counts sum to the number
\* of students), so the composition weight does not change the optima: modes
\* balanced and instrumentation have the same set of optimal assignments,
\* those of least total preference-rank cost within the section bounds, and
\* what a solve in one of them returns is an optimum of the other.  Checked
\* on the input of every solve that found an optimum, in any mode.
C12_CompositionWeightIrrelevant ==
    \A c \in Calls :
        ReturnedFeasible(c) =>
            /\ \A mode \in Modes : \A a \in Matrices :
                   OneInstrumentEach(a) =>
                       CompositionTerm(a, mode)
                           = TotalTarget - weights[mode][1] * Len(students)
            /\ OptimalAssignments("balanced") = OptimalAssignments("instrumentation")
            /\ OptimalAssignments("balanced") = LeastRankCost("balanced")
            /\ OptimalAssignments("instrumentation") = LeastRankCost("instrumentation")
            /\ preference[c] = "balanced" =>
                   Returned(c) \in OptimalAssignments("instrumentation")
            /\ preference[c] = "instrumentation" =>
                   Returned(c) \in OptimalAssignments("balanced")

\* C12 witness: a feasible balanced solve of a valid input that has feasible
\* assignments with different section counts and different rank costs, on
\* targets that are not all 0.
C12_Witness ==
    /\ ValidInput
    /\ ReturnedFeasible("A")
    /\ preference["A"] = "balanced"
    /\ TotalTarget > 0
    /\ \E b \in FeasibleAssignments("balanced") :
           /\ RankCost(b) > RankCost(Returned("A"))
           /\ \E i \in InstrumentSet : AssignedCount(b, i) # AssignedCount(Returned("A"), i)

=============================================================================
